---- MODULE Spec2Model ----
(***************************************************************************)
(* wp-python: the typed exception layer (core/exceptions.py), the          *)
(* response handling of the two transports (core/client.py) and the        *)
(* fluent query builder (utils/query.py).                                  *)
(*                                                                         *)
(* Python values are tagged records.  A Python str is a sequence of        *)
(* characters; a non-ASCII literal of the source is written as one token   *)
(* naming it.  Objects that the program shares by reference (dicts and     *)
(* lists) live in heaps and are named by their index.                      *)
(***************************************************************************)
EXTENDS Integers, Sequences, FiniteSets, TLC

VARIABLES
    input,       \* the call a single-call scenario makes, with its arguments
    pc,          \* position of the single-call scenario
    result,      \* outcome of that call: a returned value or a raised exception
    classified,  \* create_exception_from_response invocations made by request()
    text,        \* outcome of str(error) on the error held in result
    dicts,       \* heap of dict objects: dicts[1] is QueryBuilder._params, the
                 \* others are the dicts that build() created
    lists,       \* heap of list objects (the list arguments and the lists the setters create)
    rets,        \* the dict object each build() call returned to the caller, in call order
    last,        \* the last builder call: method, arguments, how it ended, and the
                 \* method called before it
    nops,        \* number of builder calls and caller mutations made so far
    plugins,     \* PluginManager.plugins: plugin name -> registered plugin object
    objs,        \* the plugin objects: name, server (set by initialize), enabled, running
    mcall,       \* the last PluginManager call: method, argument, returned value
    requests,    \* RateLimitMiddleware.requests: client ip -> recorded request times
    now,         \* time.time(), in whole seconds
    flight,      \* requests waiting in `await call_next(request)`
    forwarded,   \* per client ip, the times of the requests passed to call_next
    verdict      \* how the last dispatch() ended, with the record it found

errVars == <<input, pc, result, classified, text>>

bldVars == <<dicts, lists, rets, last, nops>>

auxVars == <<plugins, objs, mcall, requests, now, flight, forwarded, verdict>>

vars == <<errVars, bldVars, auxVars>>

\* PluginManager(), three plugin objects as BasePlugin.__init__ leaves them
\* (two share the name "fastapi"), and RateLimitMiddleware() before any request
AuxInit ==
    /\ plugins = << >>
    /\ objs = [p \in 1..3 |->
                  [name |-> IF p = 3 THEN "cache" ELSE "fastapi", server |-> FALSE, enabled |-> FALSE,
                   running |-> FALSE]]
    /\ mcall = [op |-> "new", name |-> "", obj |-> 0, ret |-> "None"]
    /\ requests = << >>
    /\ now = 0
    /\ flight = <<>>
    /\ forwarded = << >>
    /\ verdict = [out |-> "none", ip |-> "", t |-> 0, n |-> 0]

(***************************************************************************)
(* Python / JSON values                                                    *)
(***************************************************************************)
None == [t |-> "null"]

PyStr(s) == [t |-> "str", s |-> s]

PyInt(n) == [t |-> "int", n |-> n]

PyDict(f) == [t |-> "map", m |-> f]

PyList(q) == [t |-> "list", q |-> q]

\* a key that a generated mapping does not hold (input generation only)
Absent == [t |-> "absent"]

EmptyDict == PyDict([k \in {} |-> None])

\* bool(v)
Truthy(v) ==
    CASE v.t = "null" -> FALSE
      [] v.t = "str"  -> v.s # <<>>
      [] v.t = "int"  -> v.n # 0
      [] v.t = "map"  -> DOMAIN v.m # {}
      [] v.t = "list" -> v.q # <<>>

\* x or y
PyOr(x, y) == IF Truthy(x) THEN x ELSE y

Digit(d) ==
    CASE d = 0 -> "0" [] d = 1 -> "1" [] d = 2 -> "2" [] d = 3 -> "3" [] d = 4 -> "4"
      [] d = 5 -> "5" [] d = 6 -> "6" [] d = 7 -> "7" [] d = 8 -> "8" [] d = 9 -> "9"

RECURSIVE NatToStr(_)
NatToStr(n) == IF n < 10 THEN <<Digit(n)>> ELSE NatToStr(n \div 10) \o <<Digit(n % 10)>>

\* str(n) of an int, as formatted inside an f-string
IntToStr(n) == IF n < 0 THEN <<"-">> \o NatToStr(0 - n) ELSE NatToStr(n)

\* " ".join(parts) for a sequence of strs
RECURSIVE JoinSpace(_)
JoinSpace(parts) ==
    IF parts = <<>> THEN <<>>
    ELSE IF Len(parts) = 1 THEN parts[1]
    ELSE parts[1] \o <<" ">> \o JoinSpace(Tail(parts))

(***************************************************************************)
(* core/exceptions.py                                                      *)
(***************************************************************************)
\* the default of response_data.get('message', ...), a four-character CJK literal
UnknownErrorMsg == PyStr(<<"<unknown error>">>)

\* WordPressError.__init__ (inherited unchanged by every subclass)
WordPressErrorInit(cls, message, code, status_code, data, endpoint, method) ==
    [cls |-> cls,
     message |-> message,
     code |-> code,
     status_code |-> status_code,
     data |-> PyOr(data, EmptyDict),
     endpoint |-> endpoint,
     method |-> method]

\* the positional call Cls(message, code, status_code, data)
NewError(cls, message, code, status_code, data) ==
    WordPressErrorInit(cls, message, code, status_code, data, None, None)

Returned(v) == [kind |-> "return", value |-> v]

Raised(e) == [kind |-> "raise", exc |-> e]

\* a builtin exception raised by the interpreter
Builtin(name) == [cls |-> name]

\* f"{v}" for the values that reach a format field
Format(v) ==
    CASE v.t = "str" -> v.s
      [] v.t = "int" -> IntToStr(v.n)
      [] OTHER -> <<"<repr>">>

\* __str__ appending the HTTP status before the machine code
ErrorParts_StatusFirst(e) ==
    (IF Truthy(e.status_code)
     THEN <<(<<"H", "T", "T", "P", " ">> \o Format(e.status_code))>> ELSE <<>>)
    \o (IF Truthy(e.code) THEN <<(<<"[">> \o Format(e.code) \o <<"]">>)>> ELSE <<>>)
    \o (IF Truthy(e.method) /\ Truthy(e.endpoint)
        THEN <<(Format(e.method) \o <<" ">> \o Format(e.endpoint))>> ELSE <<>>)

\* WordPressError.__str__
ErrorParts(e) ==
    (IF Truthy(e.code) THEN <<(<<"[">> \o Format(e.code) \o <<"]">>)>> ELSE <<>>)
    \o (IF Truthy(e.status_code)
        THEN <<(<<"H", "T", "T", "P", " ">> \o Format(e.status_code))>> ELSE <<>>)
    \o (IF Truthy(e.method) /\ Truthy(e.endpoint)
        THEN <<(Format(e.method) \o <<" ">> \o Format(e.endpoint))>> ELSE <<>>)

ErrorStr(e) ==
    IF e.message.t # "str"
    THEN Raised(Builtin("TypeError"))     \* str.join rejects a non-str item
    ELSE Returned(PyStr(JoinSpace(ErrorParts(e) \o <<e.message.s>>)))

\* dict.get(key, default)
DictGet(d, key, default) == IF key \in DOMAIN d.m THEN d.m[key] ELSE default

\* the chain with the server branch written status_code > 500
ErrorClassFor_Gt500(status_code) ==
    IF status_code = 401 THEN "AuthenticationError"
    ELSE IF status_code = 403 THEN "PermissionError"
    ELSE IF status_code = 404 THEN "NotFoundError"
    ELSE IF status_code = 400 THEN "ValidationError"
    ELSE IF status_code = 429 THEN "RateLimitError"
    ELSE IF status_code > 500 THEN "ServerError"
    ELSE "WordPressError"

\* the if/elif chain of create_exception_from_response
ErrorClassFor(status_code) ==
    IF status_code = 401 THEN "AuthenticationError"
    ELSE IF status_code = 403 THEN "PermissionError"
    ELSE IF status_code = 404 THEN "NotFoundError"
    ELSE IF status_code = 400 THEN "ValidationError"
    ELSE IF status_code = 429 THEN "RateLimitError"
    ELSE IF status_code >= 500 THEN "ServerError"
    ELSE "WordPressError"

\* the extraction reading the machine code from the key "error"
create_exception_from_response_WrongKey(status_code, response_data) ==
    IF response_data.t # "map"
    THEN Raised(Builtin("AttributeError"))
    ELSE Returned(NewError(ErrorClassFor(status_code),
                           DictGet(response_data, "message", UnknownErrorMsg),
                           DictGet(response_data, "error", None),
                           PyInt(status_code),
                           DictGet(response_data, "data", EmptyDict)))

create_exception_from_response(status_code, response_data) ==
    IF response_data.t # "map"
    THEN Raised(Builtin("AttributeError"))   \* None, list, str, int have no .get
    ELSE Returned(NewError(ErrorClassFor(status_code),
                           DictGet(response_data, "message", UnknownErrorMsg),
                           DictGet(response_data, "code", None),
                           PyInt(status_code),
                           DictGet(response_data, "data", EmptyDict)))

(***************************************************************************)
(* core/client.py: WordPressClient / AsyncWordPressClient                  *)
(***************************************************************************)
\* a response whose body parsed as JSON, and one whose body did not
JsonPayload(v) == [json |-> TRUE, value |-> v]

TextPayload(s) == [json |-> FALSE, text |-> s]

\* _handle_response sending a non-JSON error body through the classifier
HandleResponse_Fallthrough(status_code, body) ==
    LET response_data ==
            IF body.json THEN body.value
            ELSE PyDict([k \in {"message"} |-> PyStr(body.text)])
    IN  IF status_code >= 400
        THEN LET c == create_exception_from_response(status_code, response_data)
             IN  [out |-> IF c.kind = "raise" THEN c ELSE Raised(c.value), calls |-> 1]
        ELSE [out |-> Returned(response_data), calls |-> 0]

\* _handle_response (the sync and the async method have the same body):
\* the outcome and the number of classifier invocations
HandleResponse(status_code, body) ==
    IF ~body.json /\ status_code >= 400
    THEN [out |-> Raised(WordPressErrorInit(
                      "WordPressError",
                      PyStr(<<"H", "T", "T", "P", " ">> \o IntToStr(status_code)
                            \o <<":", " ">> \o body.text),
                      None, PyInt(status_code), None, None, None)),
          calls |-> 0]
    ELSE LET response_data ==
                 IF body.json THEN body.value
                 ELSE PyDict([k \in {"message"} |-> PyStr(body.text)])
         IN  IF status_code >= 400
             THEN LET c == create_exception_from_response(status_code, response_data)
                  IN  [out |-> IF c.kind = "raise" THEN c ELSE Raised(c.value),
                       calls |-> 1]
             ELSE [out |-> Returned(response_data), calls |-> 0]

\* the three except clauses of request(), in order; sync names are those of
\* requests.exceptions, async names those of httpx
NetworkErrorFor(exc) ==
    IF exc \in {"Timeout", "TimeoutException"}
    THEN NewError("NetworkError", PyStr(<<"<request timed out>">>), None, None, None)
    ELSE IF exc \in {"ConnectionError", "ConnectError"}
    THEN NewError("NetworkError", PyStr(<<"<cannot connect to site>">>), None, None, None)
    ELSE NewError("NetworkError",
                  PyStr(<<"<network request failed>", ":", " ", "<", exc, ">">>),
                  None, None, None)

\* WordPressClient.request / AsyncWordPressClient.request
Request(call) ==
    IF call.net = "response"
    THEN HandleResponse(call.status, call.payload)
    ELSE [out |-> Raised(NetworkErrorFor(call.net)), calls |-> 0]

(***************************************************************************)
(* utils/query.py: QueryBuilder                                            *)
(***************************************************************************)
\* a reference to the list object lists[i]
Ref(i) == [t |-> "ref", id |-> i]

\* SetItem keeping the value a present key already has
SetItem_KeepFirst(d, key, v) ==
    [k \in DOMAIN d \cup {key} |-> IF k \in DOMAIN d THEN d[k] ELSE v]

\* d[key] = v on a dict's contents
SetItem(d, key, v) == [k \in DOMAIN d \cup {key} |-> IF k = key THEN v ELSE d[k]]

\* del d[key]
DelItem(d, key) == [k \in DOMAIN d \ {key} |-> d[k]]

EmptyParams == [k \in {} |-> None]

\* how a setter ends: `return self` or `raise ValueError(...)`, with the
\* contents of self._params it leaves
ReturnSelf(d) == [out |-> "self", d |-> d]

RaiseValueError(d) == [out |-> "ValueError", d |-> d]

\* page() accepting page 0
page_AcceptsZero(d, page_num) ==
    IF page_num < 0 THEN RaiseValueError(d)
    ELSE ReturnSelf(SetItem(d, "page", PyInt(page_num)))

page(d, page_num) ==
    IF page_num < 1 THEN RaiseValueError(d)
    ELSE ReturnSelf(SetItem(d, "page", PyInt(page_num)))

PerPageMax == 100

per_page(d, count) ==
    IF count < 1 \/ count > PerPageMax THEN RaiseValueError(d)
    ELSE ReturnSelf(SetItem(d, "per_page", PyInt(count)))

Asc == PyStr(<<"a", "s", "c">>)

Desc == PyStr(<<"d", "e", "s", "c">>)

\* order_by() writing "orderby" before it checks the direction
order_by_WritesFieldFirst(d, field, direction) ==
    IF direction \notin {Asc, Desc} THEN RaiseValueError(SetItem(d, "orderby", field))
    ELSE ReturnSelf(SetItem(SetItem(d, "orderby", field), "order", direction))

order_by(d, field, direction) ==
    IF direction \notin {Asc, Desc} THEN RaiseValueError(d)
    ELSE ReturnSelf(SetItem(SetItem(d, "orderby", field), "order", direction))

\* offset() without its guard
offset_NoGuard(d, offset_count) == ReturnSelf(SetItem(d, "offset", PyInt(offset_count)))

offset(d, offset_count) ==
    IF offset_count >= 0 THEN ReturnSelf(SetItem(d, "offset", PyInt(offset_count)))
    ELSE ReturnSelf(d)

View == PyStr(<<"v", "i", "e", "w">>)

Embed == PyStr(<<"e", "m", "b", "e", "d">>)

Edit == PyStr(<<"e", "d", "i", "t">>)

\* context() dropping the stored context when the argument is not accepted
context_DropsOnInvalid(d, ctx) ==
    IF ctx \in {View, Embed, Edit} THEN ReturnSelf(SetItem(d, "context", ctx))
    ELSE ReturnSelf(DelItem(d, "context"))

context(d, ctx) ==
    IF ctx \in {View, Embed, Edit} THEN ReturnSelf(SetItem(d, "context", ctx))
    ELSE ReturnSelf(d)

\* categories(): an int argument is wrapped in a new list object; a non-empty
\* list is stored by reference.  L is the list heap; the result carries the
\* heap the call leaves.
categories(d, L, category_ids) ==
    LET L2 == IF category_ids.t = "int" THEN Append(L, <<category_ids>>) ELSE L
        ids == IF category_ids.t = "int" THEN Ref(Len(L2)) ELSE category_ids
    IN  IF L2[ids.id] # <<>>
        THEN [out |-> "self", d |-> SetItem(d, "categories", ids), L |-> L2]
        ELSE [out |-> "self", d |-> d, L |-> L2]

\* build() handing out self._params itself
build_NoCopy(D) == [ret |-> 1, D |-> D]

\* build() that empties the builder after copying
build_Consuming(D) == [ret |-> Len(D) + 1, D |-> [Append(D, D[1]) EXCEPT ![1] = EmptyParams]]

\* build(): self._params.copy() is a new dict object holding the same items
\* (the values themselves are not copied)
build(D) == [ret |-> Len(D) + 1, D |-> Append(D, D[1])]

\* reset(): self._params.clear()
reset(D) == [D EXCEPT ![1] = EmptyParams]

(***************************************************************************)
(* The builder and its caller                                              *)
(***************************************************************************)
MaxOps == 4

MaxBuilds == 2

MaxLists == 2

PageInputs == {0, 1, 2}

PerPageInputs == {0, 1, PerPageMax, PerPageMax + 1}

FieldInputs == {PyStr(<<"d", "a", "t", "e">>), PyStr(<<"t", "i", "t", "l", "e">>)}

DirectionInputs == {Asc, Desc, PyStr(<<"A", "S", "C">>)}

OffsetInputs == {-1, 0, 5}

ContextInputs == {View, Embed, Edit, PyStr(<<"r", "a", "w">>)}

\* list literals the caller passes
ListInputs == {<<>>, <<PyInt(1), PyInt(2)>>}

IntInputs == {PyInt(0), PyInt(3)}

NoCall == [op |-> "new", prev |-> "new", args |-> <<>>, out |-> "self", ret |-> 0]

\* QueryBuilder(): self._params = {}
BldInit ==
    /\ dicts = <<EmptyParams>>
    /\ lists = <<>>
    /\ rets = <<>>
    /\ last = NoCall
    /\ nops = 0

\* a setter call that touches only self._params
Finish(op, args, r) ==
    /\ nops < MaxOps
    /\ dicts' = [dicts EXCEPT ![1] = r.d]
    /\ last' = [op |-> op, prev |-> last.op, args |-> args, out |-> r.out, ret |-> 0]
    /\ nops' = nops + 1
    /\ UNCHANGED <<rets, errVars, auxVars>>

CallPage == \E n \in PageInputs :
    Finish("page", <<PyInt(n)>>, page(dicts[1], n)) /\ UNCHANGED lists

CallPerPage == \E n \in PerPageInputs :
    Finish("per_page", <<PyInt(n)>>, per_page(dicts[1], n)) /\ UNCHANGED lists

CallOrderBy == \E f \in FieldInputs, dir \in DirectionInputs :
    Finish("order_by", <<f, dir>>, order_by(dicts[1], f, dir)) /\ UNCHANGED lists

CallOffset == \E n \in OffsetInputs :
    Finish("offset", <<PyInt(n)>>, offset(dicts[1], n)) /\ UNCHANGED lists

CallContext == \E c \in ContextInputs :
    Finish("context", <<c>>, context(dicts[1], c)) /\ UNCHANGED lists

\* categories(n) with an int, and categories([...]) with a list the caller made
CallCategories ==
    \/ \E n \in IntInputs :
          /\ Len(lists) < MaxLists
          /\ LET r == categories(dicts[1], lists, n)
             IN  Finish("categories", <<n>>, r) /\ lists' = r.L
    \/ \E q \in ListInputs :
          /\ Len(lists) < MaxLists
          /\ LET r == categories(dicts[1], Append(lists, q), Ref(Len(lists) + 1))
             IN  Finish("categories", <<Ref(Len(lists) + 1)>>, r) /\ lists' = r.L

CallReset ==
    /\ nops < MaxOps
    /\ dicts' = reset(dicts)
    /\ last' = [op |-> "reset", prev |-> last.op, args |-> <<>>, out |-> "self", ret |-> 0]
    /\ nops' = nops + 1
    /\ UNCHANGED <<lists, rets, errVars, auxVars>>

CallBuild ==
    /\ nops < MaxOps /\ Len(rets) < MaxBuilds
    /\ LET r == build(dicts)
       IN  /\ dicts' = r.D
           /\ rets' = Append(rets, r.ret)
           /\ last' = [op |-> "build", prev |-> last.op, args |-> <<>>, out |-> "dict", ret |-> r.ret]
    /\ nops' = nops + 1
    /\ UNCHANGED <<lists, errVars, auxVars>>

\* the caller changes the h-th mapping build() gave it: m[key] = 99 adds or
\* replaces an entry, del m[key] removes one
CallerMutates == \E h \in 1..Len(rets) :
    /\ nops < MaxOps
    /\ \/ \E key \in {"page", "extra"} :
             /\ dicts' = [dicts EXCEPT ![rets[h]] = SetItem(@, key, PyInt(99))]
             /\ last' = [op |-> "caller_set", prev |-> last.op, args |-> <<PyInt(h)>>,
                         out |-> "none", ret |-> 0]
       \/ \E key \in DOMAIN dicts[rets[h]] :
             /\ dicts' = [dicts EXCEPT ![rets[h]] = DelItem(@, key)]
             /\ last' = [op |-> "caller_del", prev |-> last.op, args |-> <<PyInt(h)>>,
                         out |-> "none", ret |-> 0]
    /\ nops' = nops + 1
    /\ UNCHANGED <<lists, rets, errVars, auxVars>>

ErrIdle ==
    /\ input = [op |-> "none"]
    /\ pc = "idle"
    /\ result = [kind |-> "none"]
    /\ classified = 0
    /\ text = [kind |-> "none"]

Init == BldInit /\ ErrIdle /\ AuxInit

Next ==
    \/ CallPage \/ CallPerPage \/ CallOrderBy \/ CallOffset \/ CallContext
    \/ CallCategories \/ CallReset \/ CallBuild \/ CallerMutates

Spec == Init /\ [][Next]_vars

(***************************************************************************)
(* Inputs of the error-layer scenarios                                     *)
(***************************************************************************)
MaxStatus == 504

\* informational, success and redirect codes, zero and a negative; then every
\* code from just below the error range up to MaxStatus
Statuses == {-1, 0, 1, 100, 200, 204, 301, 302} \cup (399..MaxStatus)

MessageOpts == {Absent, None, PyStr(<<>>), PyStr(<<"b", "a", "d">>)}

CodeOpts == {Absent, None, PyStr(<<>>), PyStr(<<"r", "_", "x">>)}

DataOpts == {Absent, None, EmptyDict, PyList(<<>>), PyInt(0), PyStr(<<>>),
             PyDict([k \in {"field"} |-> PyStr(<<"title">>)])}

BodyOpt(k, m, c, d) == IF k = "message" THEN m ELSE IF k = "code" THEN c ELSE d

MappingBodies ==
    { PyDict([k \in {x \in {"message", "code", "data"} : BodyOpt(x, m, c, d) # Absent}
                |-> BodyOpt(k, m, c, d)])
      : m \in MessageOpts, c \in CodeOpts, d \in DataOpts }

\* JSON documents that are not objects: null, an array, a string, a number
NonMappingBodies == {None, PyList(<<>>), PyList(<<PyInt(1)>>), PyStr(<<"b", "a", "d">>), PyInt(0)}

RawTexts == {<<>>, <<"<", "h", "1", ">">>}

SyncFailures == {"Timeout", "ConnectionError", "RequestException"}

AsyncFailures == {"TimeoutException", "ConnectError", "RequestError"}

ErrorClasses == {"WordPressError", "AuthenticationError", "PermissionError",
                 "NotFoundError", "ValidationError", "RateLimitError",
                 "ServerError", "NetworkError"}

ClassifyInputs ==
    [op : {"classify"}, status : Statuses, body : MappingBodies \cup NonMappingBodies]

RequestInputs ==
    [op : {"request"}, client : {"sync", "async"}, net : {"response"}, status : Statuses,
     payload : {JsonPayload(b) : b \in MappingBodies \cup NonMappingBodies}
               \cup {TextPayload(x) : x \in RawTexts}]
    \cup [op : {"request"}, client : {"sync"}, net : SyncFailures,
          status : {0}, payload : {TextPayload(<<>>)}]
    \cup [op : {"request"}, client : {"async"}, net : AsyncFailures,
          status : {0}, payload : {TextPayload(<<>>)}]

\* direct construction, as the transports and the tests do
ConstructInputs ==
    [op : {"construct"}, cls : ErrorClasses,
     message : {PyStr(<<>>), PyStr(<<"b", "a", "d">>)},
     code : {None, PyStr(<<>>), PyStr(<<"r", "_", "x">>)},
     status_code : {None, PyInt(0), PyInt(400)},
     data : {None, PyDict([k \in {"field"} |-> PyStr(<<"value">>)])},
     endpoint : {None, PyStr(<<"/", "p">>)},
     method : {None, PyStr(<<"G", "E", "T">>)}]

NoOutcome == [kind |-> "none"]

ErrInit ==
    /\ input \in ClassifyInputs \cup RequestInputs \cup ConstructInputs
    /\ pc = "start"
    /\ result = NoOutcome
    /\ classified = 0
    /\ text = NoOutcome
    /\ BldInit
    /\ AuxInit

\* a direct call of create_exception_from_response(status_code, response_data)
Classify ==
    /\ pc = "start" /\ input.op = "classify"
    /\ result' = create_exception_from_response(input.status, input.body)
    /\ pc' = "done"
    /\ UNCHANGED <<input, classified, text, bldVars, auxVars>>

\* a call of client.request(...)
DoRequest ==
    /\ pc = "start" /\ input.op = "request"
    /\ LET r == Request(input)
       IN  result' = r.out /\ classified' = r.calls
    /\ pc' = "done"
    /\ UNCHANGED <<input, text, bldVars, auxVars>>

\* a direct call of an exception class
Construct ==
    /\ pc = "start" /\ input.op = "construct"
    /\ result' = Returned(WordPressErrorInit(input.cls, input.message, input.code,
                                              input.status_code, input.data,
                                              input.endpoint, input.method))
    /\ pc' = "done"
    /\ UNCHANGED <<input, classified, text, bldVars, auxVars>>

IsError(x) == x.cls \in ErrorClasses

\* the error the scenario produced, when it produced one
HasError ==
    \/ result.kind = "return" /\ input.op # "request"
    \/ result.kind = "raise" /\ IsError(result.exc)

TheError == IF result.kind = "return" THEN result.value ELSE result.exc

\* str(error)
Stringify ==
    /\ pc = "done" /\ HasError
    /\ text' = ErrorStr(TheError)
    /\ pc' = "printed"
    /\ UNCHANGED <<input, result, classified, bldVars, auxVars>>

ErrNext == Classify \/ DoRequest \/ Construct \/ Stringify

SpecErr == ErrInit /\ [][ErrNext]_vars

(***************************************************************************)
(* Claims about the exception layer and the transports (SpecErr)           *)
(***************************************************************************)
ClassifiedMapping == pc # "start" /\ input.op = "classify" /\ input.body.t = "map"

C2_NonMappingBody ==
    (pc # "start" /\ input.op = "classify" /\ input.body.t # "map") =>
        /\ result.kind = "return"
        /\ result.value.cls = ErrorClassFor(input.status)
        /\ result.value.message = UnknownErrorMsg
        /\ result.value.code = None
        /\ result.value.data = EmptyDict

Printed == pc = "printed" /\ TheError.message.t = "str"

NonJsonResponse ==
    pc # "start" /\ input.op = "request" /\ input.net = "response" /\ ~input.payload.json

\* C5: a response whose body is not JSON raises, when its status is >= 400,
\* the generic WordPressError with message "HTTP <status>: <text>" and the
\* response status, without invoking the classifier; below 400 nothing is raised.
C5_NonJson ==
    NonJsonResponse =>
        IF input.status >= 400
        THEN /\ result.kind = "raise"
             /\ result.exc.cls = "WordPressError"
             /\ result.exc.message =
                   PyStr(<<"H", "T", "T", "P", " ">> \o IntToStr(input.status)
                         \o <<":", " ">> \o input.payload.text)
             /\ result.exc.status_code = PyInt(input.status)
             /\ classified = 0
        ELSE result.kind = "return"

C5_Witness ==
    /\ NonJsonResponse /\ input.client = "async" /\ input.status = 404
    /\ input.payload.text # <<>>
    /\ result.kind = "raise" /\ result.exc.cls = "WordPressError"

\* C6: every request() ends in one of three outcomes: a transport failure
\* raises NetworkError without reaching the classifier; a response with
\* status >= 400 raises a WordPressError (or subclass) and nothing else; a
\* response with status < 400 returns the data.
C6_ThreeOutcomes ==
    (pc # "start" /\ input.op = "request") =>
        /\ input.net # "response" =>
              result.kind = "raise" /\ result.exc.cls = "NetworkError" /\ classified = 0
        /\ (input.net = "response" /\ input.status >= 400) =>
              result.kind = "raise" /\ IsError(result.exc)
        /\ (input.net = "response" /\ input.status < 400) => result.kind = "return"

(***************************************************************************)
(* Claims about QueryBuilder (Spec)                                        *)
(***************************************************************************)
\* C7: build() is a pure read: it leaves self._params as it was, returns a
\* mapping equal to it, and a build() that directly follows a build()
\* returns a mapping equal to the one returned before.
C7_BuildPure ==
    [][(last'.op = "build" /\ nops' = nops + 1) =>
          /\ dicts'[1] = dicts[1]
          /\ dicts'[last'.ret] = dicts[1]
          /\ last.op = "build" => dicts'[last'.ret] = dicts[last.ret]]_vars

C7_Witness ==
    /\ last.op = "build" /\ last.prev = "build"
    /\ Len(rets) = 2 /\ rets[1] # rets[2]
    /\ dicts[rets[1]] = dicts[rets[2]]
    /\ DOMAIN dicts[1] = {"page", "per_page"}

\* C8: build() returns a fresh dict object, and when the caller adds,
\* replaces or removes an entry of a returned mapping, the builder's
\* parameters and every other returned mapping stay as they were; a later
\* build() returns the builder's parameters.
C8_Independent ==
    [][/\ (last'.op = "build" /\ nops' = nops + 1) =>
             /\ last'.ret # 1
             /\ \A j \in 1..Len(rets) : rets[j] # last'.ret
             /\ dicts'[last'.ret] = dicts[1]
       /\ (last'.op \in {"caller_set", "caller_del"} /\ nops' = nops + 1) =>
             /\ dicts'[1] = dicts[1]
             /\ \A j \in 1..Len(rets) :
                   j # last'.args[1].n => dicts'[rets[j]] = dicts[rets[j]]]_vars

C8_Witness ==
    /\ last.op \in {"caller_set", "caller_del"} /\ last.args = <<PyInt(1)>>
    /\ Len(rets) = 2
    /\ dicts[rets[1]] # dicts[rets[2]]
    /\ dicts[rets[2]] = dicts[1]
    /\ dicts[1] # EmptyParams

\* C9: page(n) raises ValueError iff n < 1, per_page(n) iff n < 1 or n > 100,
\* order_by(field, direction) iff direction is not "asc" or "desc"; otherwise
\* the call returns the builder and the value is stored.
C9_Validation ==
    /\ last.op = "page" =>
          IF last.args[1].n < 1 THEN last.out = "ValueError"
          ELSE /\ last.out = "self"
               /\ "page" \in DOMAIN dicts[1] /\ dicts[1]["page"] = last.args[1]
    /\ last.op = "per_page" =>
          IF last.args[1].n < 1 \/ last.args[1].n > 100 THEN last.out = "ValueError"
          ELSE /\ last.out = "self"
               /\ "per_page" \in DOMAIN dicts[1] /\ dicts[1]["per_page"] = last.args[1]
    /\ last.op = "order_by" =>
          IF last.args[2] \notin {PyStr(<<"a", "s", "c">>), PyStr(<<"d", "e", "s", "c">>)}
          THEN last.out = "ValueError"
          ELSE /\ last.out = "self"
               /\ {"orderby", "order"} \subseteq DOMAIN dicts[1]
               /\ dicts[1]["orderby"] = last.args[1] /\ dicts[1]["order"] = last.args[2]

C9_Witness ==
    /\ last.op = "order_by" /\ last.out = "self" /\ last.prev = "per_page"
    /\ DOMAIN dicts[1] = {"per_page", "orderby", "order"}
    /\ dicts[1]["per_page"] = PyInt(100)
    /\ dicts[1]["order"] = PyStr(<<"a", "s", "c">>)

OutOfRange ==
    \/ last.op = "page" /\ last.args[1].n < 1
    \/ last.op = "per_page" /\ (last.args[1].n < 1 \/ last.args[1].n > 100)
    \/ last.op = "offset" /\ last.args[1].n < 0
    \/ last.op = "order_by"
          /\ last.args[2] \notin {PyStr(<<"a", "s", "c">>), PyStr(<<"d", "e", "s", "c">>)}

EnumMember(cls, name, value) == [t |-> "enum", cls |-> cls, name |-> name, value |-> value]

\* a datetime, carried with the text isoformat() gives for it
DateTime(iso) == [t |-> "datetime", iso |-> iso]

\* hasattr(item, 'value')
HasValueAttr(item) == item.t = "enum"

\* str(item): Enum.__str__ gives "Class.MEMBER"
PyStrOf(item) ==
    CASE item.t = "str" -> item
      [] item.t = "int" -> PyStr(IntToStr(item.n))
      [] item.t = "enum" -> PyStr(item.cls \o <<".">> \o item.name)
      [] OTHER -> PyStr(<<"<repr>">>)

\* the conversion returning str(item) for every item
convert_single_enum_or_string_StrOnly(item) == PyStrOf(item)

convert_single_enum_or_string(item) ==
    IF HasValueAttr(item) THEN item.value ELSE PyStrOf(item)

\* the list conversion skipping falsy items
RECURSIVE convert_enum_or_string_list_SkipFalsy(_)
convert_enum_or_string_list_SkipFalsy(items) ==
    IF items = <<>> THEN <<>>
    ELSE (IF items[1].t = "str" /\ items[1].s = <<>> THEN <<>>
          ELSE IF HasValueAttr(items[1]) THEN <<items[1].value>>
          ELSE <<PyStrOf(items[1])>>)
         \o convert_enum_or_string_list_SkipFalsy(Tail(items))

\* the loop of convert_enum_or_string_list: one append per item, in order
RECURSIVE convert_enum_or_string_list(_)
convert_enum_or_string_list(items) ==
    IF items = <<>> THEN <<>>
    ELSE <<(IF HasValueAttr(items[1]) THEN items[1].value ELSE PyStrOf(items[1]))>>
         \o convert_enum_or_string_list(Tail(items))

\* ",".join(strs) for a sequence of strs
RECURSIVE JoinComma(_)
JoinComma(strs) ==
    IF strs = <<>> THEN PyStr(<<>>)
    ELSE IF Len(strs) = 1 THEN strs[1]
    ELSE PyStr(strs[1].s \o <<",">> \o JoinComma(Tail(strs)).s)

\* the join written with ", "
build_comma_separated_param_Spaced(items) ==
    LET strs == convert_enum_or_string_list(items)
        Sp[i \in 0..Len(strs)] ==
            IF i = 0 THEN <<>>
            ELSE IF i = 1 THEN strs[1].s
            ELSE Sp[i - 1] \o <<",", " ">> \o strs[i].s
    IN  PyStr(Sp[Len(strs)])

build_comma_separated_param(items) == JoinComma(convert_enum_or_string_list(items))

\* map(str, value)
MapStr(items) == [i \in 1..Len(items) |-> PyStrOf(items[i])]

\* one pass of the loop of safe_build_params: the entry it adds for a
\* keyword argument, or Absent when it adds none
SafeParamFor(value) ==
    IF value = None THEN Absent
    ELSE IF value.t = "list"
    THEN IF value.q # <<>>
         THEN IF HasValueAttr(value.q[1])
              THEN build_comma_separated_param(value.q)
              ELSE JoinComma(MapStr(value.q))
         ELSE Absent
    ELSE IF HasValueAttr(value) THEN value.value
    ELSE value

safe_build_params(kwargs) ==
    [k \in {x \in DOMAIN kwargs : SafeParamFor(kwargs[x]) # Absent} |-> SafeParamFor(kwargs[k])]

\* one pass of the loop of AsyncPostService._build_list_params
ListParamFor(value) ==
    IF value = None THEN Absent
    ELSE IF value.t = "list"
    THEN IF value.q # <<>> THEN build_comma_separated_param(value.q) ELSE Absent
    ELSE IF HasValueAttr(value) THEN value.value
    ELSE IF value.t = "datetime" THEN PyStr(value.iso)
    ELSE value

build_list_params(kwargs) ==
    [k \in {x \in DOMAIN kwargs : ListParamFor(kwargs[x]) # Absent} |-> ListParamFor(kwargs[k])]

(***************************************************************************)
(* Inputs of the conversion scenarios                                      *)
(***************************************************************************)
MaxItems == 3

PostStatusName == <<"P", "o", "s", "t", "S", "t", "a", "t", "u", "s">>

PUBLISH == EnumMember(PostStatusName, <<"P", "U", "B", "L", "I", "S", "H">>,
                      PyStr(<<"p", "u", "b", "l", "i", "s", "h">>))

DRAFT == EnumMember(PostStatusName, <<"D", "R", "A", "F", "T">>,
                    PyStr(<<"d", "r", "a", "f", "t">>))

PostFormatName == <<"P", "o", "s", "t", "F", "o", "r", "m", "a", "t">>

VIDEO == EnumMember(PostFormatName, <<"V", "I", "D", "E", "O">>,
                    PyStr(<<"v", "i", "d", "e", "o">>))

\* raw strings (the empty one included), enum members and an int
ItemInputs == {PyStr(<<>>), PyStr(<<"d", "r", "a", "f", "t">>), PUBLISH, DRAFT, VIDEO, PyInt(12)}

ItemLists == UNION {[1..n -> ItemInputs] : n \in 0..MaxItems}

KwargValues ==
    {None, PUBLISH, PyInt(5), PyStr(<<"k", "w">>),
     DateTime(<<"2024-01-01T12:00:00">>)}
    \cup {PyList(q) : q \in ItemLists}

ConvInputs ==
    [op : {"convert_single"}, item : ItemInputs]
    \cup [op : {"convert_list", "build_comma"}, items : ItemLists]
    \cup [op : {"safe_build_params", "build_list_params"},
          kwargs : [{"status"} -> KwargValues]]

ConvInit ==
    /\ input \in ConvInputs
    /\ pc = "start"
    /\ result = NoOutcome
    /\ classified = 0
    /\ text = NoOutcome
    /\ BldInit
    /\ AuxInit

ConvDone(r) ==
    /\ pc = "start"
    /\ result' = Returned(r)
    /\ pc' = "done"
    /\ UNCHANGED <<input, classified, text, bldVars, auxVars>>

CallConvertSingle ==
    input.op = "convert_single" /\ ConvDone(convert_single_enum_or_string(input.item))

CallConvertList ==
    input.op = "convert_list" /\ ConvDone(PyList(convert_enum_or_string_list(input.items)))

CallBuildComma ==
    input.op = "build_comma" /\ ConvDone(build_comma_separated_param(input.items))

CallSafeBuildParams ==
    input.op = "safe_build_params" /\ ConvDone(PyDict(safe_build_params(input.kwargs)))

CallBuildListParams ==
    input.op = "build_list_params" /\ ConvDone(PyDict(build_list_params(input.kwargs)))

ConvNext ==
    \/ CallConvertSingle \/ CallConvertList \/ CallBuildComma
    \/ CallSafeBuildParams \/ CallBuildListParams

SpecConv == ConvInit /\ [][ConvNext]_vars

(***************************************************************************)
(* Claims about the conversions (SpecConv)                                 *)
(***************************************************************************)
\* C17: convert_single_enum_or_string returns a string for every accepted
\* input: a raw string unchanged, an enum member's canonical string, and
\* the decimal text of an int.
C17_ResolveOne ==
    (pc = "done" /\ input.op = "convert_single") =>
        /\ result.kind = "return" /\ result.value.t = "str"
        /\ input.item.t = "str" => result.value = input.item
        /\ input.item.t = "enum" => result.value = input.item.value
        /\ input.item.t = "int" => result.value.s = IntToStr(input.item.n)

C17_Witness ==
    /\ pc = "done" /\ input.op = "convert_single" /\ input.item = DRAFT
    /\ result = Returned(PyStr(<<"d", "r", "a", "f", "t">>))

\* C18: convert_enum_or_string_list returns a list of the same length whose
\* i-th element is convert_single_enum_or_string of the i-th input: order,
\* duplicates and empty strings are kept.
C18_ResolveList ==
    (pc = "done" /\ input.op = "convert_list") =>
        /\ result.kind = "return" /\ result.value.t = "list"
        /\ Len(result.value.q) = Len(input.items)
        /\ \A i \in 1..Len(input.items) :
              result.value.q[i] = convert_single_enum_or_string(input.items[i])

C18_Witness ==
    /\ pc = "done" /\ input.op = "convert_list"
    /\ input.items = <<PyStr(<<>>), DRAFT, DRAFT>>
    /\ result.value.q = <<PyStr(<<>>), PyStr(<<"d", "r", "a", "f", "t">>),
                          PyStr(<<"d", "r", "a", "f", "t">>)>>

\* C19: build_comma_separated_param returns the converted elements in order
\* separated by single commas: "" for the empty list, the converted element
\* alone for one element, a + "," + b for two.
C19_JoinComma ==
    (pc = "done" /\ input.op = "build_comma") =>
        LET L == input.items
            one(i) == convert_single_enum_or_string(L[i]).s
            Sep[i \in 0..Len(L)] ==
                IF i = 0 THEN <<>>
                ELSE IF i = 1 THEN one(1)
                ELSE Sep[i - 1] \o <<",">> \o one(i)
        IN  /\ result.kind = "return" /\ result.value.t = "str"
            /\ result.value.s = Sep[Len(L)]
            /\ Len(L) = 0 => result.value.s = <<>>
            /\ Len(L) = 1 => result.value = convert_single_enum_or_string(L[1])
            /\ Len(L) = 2 => result.value.s = one(1) \o <<",">> \o one(2)

C19_Witness ==
    /\ pc = "done" /\ input.op = "build_comma"
    /\ input.items = <<PUBLISH, PyStr(<<"d", "r", "a", "f", "t">>)>>
    /\ result.value.s = <<"p", "u", "b", "l", "i", "s", "h", ",", "d", "r", "a", "f", "t">>

\* the canonical string of a raw string or an enum member
Canonical(item) == IF item.t = "enum" THEN item.value ELSE item

\* the list with each enum member replaced by its canonical string
AllStrings(q) == [i \in 1..Len(q) |-> Canonical(q[i])]

\* a non-empty list of raw strings and enum members
MixedList(q) == q # <<>> /\ \A i \in 1..Len(q) : q[i].t \in {"str", "enum"}

\* C20: every list-serialization path (build_comma_separated_param,
\* safe_build_params, _build_list_params) turns a non-empty list of raw
\* strings and enum members, whichever kind comes first, into the string it
\* gives for the list with each enum member replaced by its canonical string.
C20_MixedSameAsStrings ==
    /\ (pc = "done" /\ input.op = "build_comma" /\ MixedList(input.items)) =>
          result.value = build_comma_separated_param(AllStrings(input.items))
    /\ (pc = "done" /\ input.op = "safe_build_params"
          /\ input.kwargs["status"].t = "list" /\ MixedList(input.kwargs["status"].q)) =>
          result.value.m =
              safe_build_params([status |-> PyList(AllStrings(input.kwargs["status"].q))])
    /\ (pc = "done" /\ input.op = "build_list_params"
          /\ input.kwargs["status"].t = "list" /\ MixedList(input.kwargs["status"].q)) =>
          result.value.m =
              build_list_params([status |-> PyList(AllStrings(input.kwargs["status"].q))])

(***************************************************************************)
(* Claims about the builder, continued (Spec)                              *)
(***************************************************************************)
\* C11: context(ctx) never raises: with ctx one of "view", "embed", "edit"
\* it stores ctx under "context" and leaves the other parameters alone; with
\* any other ctx every accumulated parameter, a stored context included,
\* stays as it was; either way the builder is returned.
C11_ContextStep ==
    [][(last'.op = "context" /\ nops' = nops + 1) =>
          /\ last'.out = "self"
          /\ lists' = lists
          /\ IF last'.args[1] \in {PyStr(<<"v", "i", "e", "w">>),
                                   PyStr(<<"e", "m", "b", "e", "d">>),
                                   PyStr(<<"e", "d", "i", "t">>)}
             THEN /\ DOMAIN dicts'[1] = DOMAIN dicts[1] \cup {"context"}
                  /\ dicts'[1]["context"] = last'.args[1]
                  /\ \A k \in DOMAIN dicts[1] \ {"context"} : dicts'[1][k] = dicts[1][k]
             ELSE dicts'[1] = dicts[1]]_vars

\* an unaccepted context arrives while an accepted one is stored next to
\* another parameter
C11_Witness ==
    /\ last.op = "context" /\ last.prev = "context" /\ last.out = "self"
    /\ last.args[1] = PyStr(<<"r", "a", "w">>)
    /\ DOMAIN dicts[1] = {"page", "context"}
    /\ dicts[1]["context"] = PyStr(<<"e", "m", "b", "e", "d">>)

(***************************************************************************)
(* utils/query.py: the remaining setters of QueryBuilder                   *)
(***************************************************************************)
PyBool(b) == [t |-> "bool", b |-> b]

\* bool(v) where v may be a reference to a list of the heap L
TruthyIn(L, v) ==
    CASE v.t = "ref" -> L[v.id] # <<>>
      [] v.t = "enum" -> v.value.s # <<>>
      [] v.t = "bool" -> v.b
      [] v.t = "datetime" -> TRUE
      [] OTHER -> Truthy(v)

\* search() removing the stored keyword when given an empty one
search_DeletesOnEmpty(d, keyword) ==
    IF Truthy(keyword) THEN ReturnSelf(SetItem(d, "search", keyword))
    ELSE ReturnSelf(DelItem(d, "search"))

search(d, keyword) ==
    IF Truthy(keyword) THEN ReturnSelf(SetItem(d, "search", keyword))
    ELSE ReturnSelf(d)

\* include() without the `if ids:` guard
include_NoGuard(d, L, ids) == [out |-> "self", d |-> SetItem(d, "include", ids), L |-> L]

include(d, L, ids) ==
    IF TruthyIn(L, ids)
    THEN [out |-> "self", d |-> SetItem(d, "include", ids), L |-> L]
    ELSE [out |-> "self", d |-> d, L |-> L]

exclude(d, L, ids) ==
    IF TruthyIn(L, ids)
    THEN [out |-> "self", d |-> SetItem(d, "exclude", ids), L |-> L]
    ELSE [out |-> "self", d |-> d, L |-> L]

\* status() storing the comma-joined canonical strings
status_Serialized(d, L, statuses) ==
    LET q == IF statuses.t = "ref" THEN L[statuses.id] ELSE <<statuses>>
    IN  IF q # <<>>
        THEN [out |-> "self", d |-> SetItem(d, "status", build_comma_separated_param(q)),
              L |-> L]
        ELSE [out |-> "self", d |-> d, L |-> L]

status(d, L, statuses) ==
    LET isMember == statuses.t = "enum" /\ statuses.cls = PostStatusName
        L2 == IF isMember THEN Append(L, <<statuses>>) ELSE L
        v == IF isMember THEN Ref(Len(L2)) ELSE statuses
    IN  IF TruthyIn(L2, v)
        THEN [out |-> "self", d |-> SetItem(d, "status", v), L |-> L2]
        ELSE [out |-> "self", d |-> d, L |-> L2]

\* author() testing the argument's truth before wrapping it
author_TruthBeforeWrap(d, L, author_ids) ==
    IF TruthyIn(L, author_ids)
    THEN LET L2 == IF author_ids.t = "int" THEN Append(L, <<author_ids>>) ELSE L
             ids == IF author_ids.t = "int" THEN Ref(Len(L2)) ELSE author_ids
         IN  [out |-> "self", d |-> SetItem(d, "author", ids), L |-> L2]
    ELSE [out |-> "self", d |-> d, L |-> L]

author(d, L, author_ids) ==
    LET L2 == IF author_ids.t = "int" THEN Append(L, <<author_ids>>) ELSE L
        ids == IF author_ids.t = "int" THEN Ref(Len(L2)) ELSE author_ids
    IN  IF TruthyIn(L2, ids)
        THEN [out |-> "self", d |-> SetItem(d, "author", ids), L |-> L2]
        ELSE [out |-> "self", d |-> d, L |-> L2]

author_exclude(d, L, author_ids) ==
    LET L2 == IF author_ids.t = "int" THEN Append(L, <<author_ids>>) ELSE L
        ids == IF author_ids.t = "int" THEN Ref(Len(L2)) ELSE author_ids
    IN  IF TruthyIn(L2, ids)
        THEN [out |-> "self", d |-> SetItem(d, "author_exclude", ids), L |-> L2]
        ELSE [out |-> "self", d |-> d, L |-> L2]

categories_exclude(d, L, category_ids) ==
    LET L2 == IF category_ids.t = "int" THEN Append(L, <<category_ids>>) ELSE L
        ids == IF category_ids.t = "int" THEN Ref(Len(L2)) ELSE category_ids
    IN  IF TruthyIn(L2, ids)
        THEN [out |-> "self", d |-> SetItem(d, "categories_exclude", ids), L |-> L2]
        ELSE [out |-> "self", d |-> d, L |-> L2]

tags(d, L, tag_ids) ==
    LET L2 == IF tag_ids.t = "int" THEN Append(L, <<tag_ids>>) ELSE L
        ids == IF tag_ids.t = "int" THEN Ref(Len(L2)) ELSE tag_ids
    IN  IF TruthyIn(L2, ids)
        THEN [out |-> "self", d |-> SetItem(d, "tags", ids), L |-> L2]
        ELSE [out |-> "self", d |-> d, L |-> L2]

tags_exclude(d, L, tag_ids) ==
    LET L2 == IF tag_ids.t = "int" THEN Append(L, <<tag_ids>>) ELSE L
        ids == IF tag_ids.t = "int" THEN Ref(Len(L2)) ELSE tag_ids
    IN  IF TruthyIn(L2, ids)
        THEN [out |-> "self", d |-> SetItem(d, "tags_exclude", ids), L |-> L2]
        ELSE [out |-> "self", d |-> d, L |-> L2]

after(d, date) == ReturnSelf(SetItem(d, "after", date))

before(d, date) == ReturnSelf(SetItem(d, "before", date))

modified_after(d, date) == ReturnSelf(SetItem(d, "modified_after", date))

modified_before(d, date) == ReturnSelf(SetItem(d, "modified_before", date))

slug(d, L, slugs) ==
    LET L2 == IF slugs.t = "str" THEN Append(L, <<slugs>>) ELSE L
        v == IF slugs.t = "str" THEN Ref(Len(L2)) ELSE slugs
    IN  IF TruthyIn(L2, v)
        THEN [out |-> "self", d |-> SetItem(d, "slug", v), L |-> L2]
        ELSE [out |-> "self", d |-> d, L |-> L2]

sticky(d, is_sticky) == ReturnSelf(SetItem(d, "sticky", is_sticky))

format(d, L, formats) ==
    LET isMember == formats.t = "enum" /\ formats.cls = PostFormatName
        L2 == IF isMember THEN Append(L, <<formats>>) ELSE L
        v == IF isMember THEN Ref(Len(L2)) ELSE formats
    IN  IF TruthyIn(L2, v)
        THEN [out |-> "self", d |-> SetItem(d, "format", v), L |-> L2]
        ELSE [out |-> "self", d |-> d, L |-> L2]

parent(d, L, parent_ids) ==
    LET L2 == IF parent_ids.t = "int" THEN Append(L, <<parent_ids>>) ELSE L
        ids == IF parent_ids.t = "int" THEN Ref(Len(L2)) ELSE parent_ids
    IN  IF TruthyIn(L2, ids)
        THEN [out |-> "self", d |-> SetItem(d, "parent", ids), L |-> L2]
        ELSE [out |-> "self", d |-> d, L |-> L2]

parent_exclude(d, L, parent_ids) ==
    LET L2 == IF parent_ids.t = "int" THEN Append(L, <<parent_ids>>) ELSE L
        ids == IF parent_ids.t = "int" THEN Ref(Len(L2)) ELSE parent_ids
    IN  IF TruthyIn(L2, ids)
        THEN [out |-> "self", d |-> SetItem(d, "parent_exclude", ids), L |-> L2]
        ELSE [out |-> "self", d |-> d, L |-> L2]

hide_empty(d, hide) == ReturnSelf(SetItem(d, "hide_empty", hide))

custom(d, key, value) == ReturnSelf(SetItem(d, key, value))

\* builder.<name>(arg) for the setters that take a list
ListSetter(name, d, L, arg) ==
    CASE name = "include" -> include(d, L, arg)
      [] name = "exclude" -> exclude(d, L, arg)
      [] name = "status" -> status(d, L, arg)
      [] name = "author" -> author(d, L, arg)
      [] name = "author_exclude" -> author_exclude(d, L, arg)
      [] name = "categories_exclude" -> categories_exclude(d, L, arg)
      [] name = "tags" -> tags(d, L, arg)
      [] name = "tags_exclude" -> tags_exclude(d, L, arg)
      [] name = "slug" -> slug(d, L, arg)
      [] name = "format" -> format(d, L, arg)
      [] name = "parent" -> parent(d, L, arg)
      [] name = "parent_exclude" -> parent_exclude(d, L, arg)

\* builder.<name>(arg) for the setters that take one plain value
ScalarSetter(name, d, arg) ==
    CASE name = "search" -> search(d, arg)
      [] name = "after" -> after(d, arg)
      [] name = "before" -> before(d, arg)
      [] name = "modified_after" -> modified_after(d, arg)
      [] name = "modified_before" -> modified_before(d, arg)
      [] name = "sticky" -> sticky(d, arg)
      [] name = "hide_empty" -> hide_empty(d, arg)

(***************************************************************************)
(* Scenario: any chain of setters, reset() and build() on one builder      *)
(***************************************************************************)
MaxCalls == 2

\* arguments of the setters taking ids: an int, and lists the caller made
IdArgs == {PyInt(0), PyList(<<>>), PyList(<<PyInt(0)>>), PyList(<<PyInt(1), PyInt(2)>>)}

ListSetterArgs ==
    [include |-> IdArgs \ {PyInt(0)},
     exclude |-> IdArgs \ {PyInt(0)},
     status |-> {PUBLISH, PyStr(<<"d", "r", "a", "f", "t">>), PyList(<<>>),
                 PyList(<<DRAFT, PUBLISH>>)},
     author |-> IdArgs,
     author_exclude |-> IdArgs,
     categories_exclude |-> IdArgs,
     tags |-> IdArgs,
     tags_exclude |-> IdArgs,
     slug |-> {PyStr(<<"d", "r", "a", "f", "t">>), PyList(<<>>),
               PyList(<<PyStr(<<"a">>), PyStr(<<"b">>)>>)},
     format |-> {VIDEO, PyList(<<>>), PyList(<<VIDEO>>)},
     parent |-> IdArgs,
     parent_exclude |-> IdArgs]

ScalarSetterArgs ==
    [search |-> {PyStr(<<>>), PyStr(<<"k", "w">>)},
     after |-> {DateTime(<<"2024-01-01T12:00:00">>)},
     before |-> {DateTime(<<"2024-12-31T00:00:00">>)},
     modified_after |-> {DateTime(<<"2024-01-01T12:00:00">>)},
     modified_before |-> {DateTime(<<"2024-12-31T00:00:00">>)},
     sticky |-> {PyBool(TRUE), PyBool(FALSE)},
     hide_empty |-> {PyBool(TRUE), PyBool(FALSE)}]

CustomInputs == {<<"page", PyInt(0)>>, <<"lang", None>>}

\* a list argument is a list object the caller allocates for the call
CallListSetter == \E name \in DOMAIN ListSetterArgs : \E a \in ListSetterArgs[name] :
    /\ Len(lists) < MaxLists
    /\ LET L1 == IF a.t = "list" THEN Append(lists, a.q) ELSE lists
           arg == IF a.t = "list" THEN Ref(Len(L1)) ELSE a
           r == ListSetter(name, dicts[1], L1, arg)
       IN  Finish(name, <<arg>>, r) /\ lists' = r.L

CallScalarSetter == \E name \in DOMAIN ScalarSetterArgs : \E a \in ScalarSetterArgs[name] :
    Finish(name, <<a>>, ScalarSetter(name, dicts[1], a)) /\ UNCHANGED lists

CallCustom == \E kv \in CustomInputs :
    Finish("custom", <<PyStr(<<kv[1]>>), kv[2]>>, custom(dicts[1], kv[1], kv[2]))
    /\ UNCHANGED lists

\* fewer than MaxCalls setter and reset calls were made so far
WithinCalls == nops - Len(rets) < MaxCalls

FullNext ==
    \/ WithinCalls /\ (CallPage \/ CallPerPage \/ CallOrderBy \/ CallOffset \/ CallContext)
    \/ WithinCalls /\ (CallCategories \/ CallListSetter \/ CallScalarSetter \/ CallCustom)
    \/ WithinCalls /\ CallReset
    \/ CallBuild

SpecFull == Init /\ [][FullNext]_vars

(***************************************************************************)
(* Claims about chains of builder calls (SpecFull)                         *)
(***************************************************************************)
IdSetters ==
    {"author", "author_exclude", "categories", "categories_exclude", "tags",
     "tags_exclude", "parent", "parent_exclude"}

ListSetters == IdSetters \cup {"include", "exclude", "status", "slug", "format"}

\* the step is a setter call recorded in last'
SetterStep == nops' = nops + 1 /\ last'.op \notin {"build", "reset"}

\* the call l passes a single value that its setter wraps in a new list
Wraps(l) ==
    \/ l.op \in IdSetters /\ l.args[1].t = "int"
    \/ l.op = "status" /\ l.args[1].t = "enum" /\ l.args[1].cls = PostStatusName
    \/ l.op = "format" /\ l.args[1].t = "enum" /\ l.args[1].cls = PostFormatName
    \/ l.op = "slug" /\ l.args[1].t = "str"

\* the call l is one the setter stores: its argument is in range, or is a
\* non-empty list or keyword (L is the list heap)
Accepts(l, L) ==
    CASE l.op = "page" -> l.args[1].n >= 1
      [] l.op = "per_page" -> l.args[1].n >= 1 /\ l.args[1].n <= 100
      [] l.op = "order_by" ->
            l.args[2] \in {PyStr(<<"a", "s", "c">>), PyStr(<<"d", "e", "s", "c">>)}
      [] l.op = "offset" -> l.args[1].n >= 0
      [] l.op = "context" ->
            l.args[1] \in {PyStr(<<"v", "i", "e", "w">>), PyStr(<<"e", "m", "b", "e", "d">>),
                           PyStr(<<"e", "d", "i", "t">>)}
      [] l.op = "search" -> l.args[1].s # <<>>
      [] l.op \in ListSetters ->
            \/ Wraps(l)
            \/ l.args[1].t = "ref" /\ L[l.args[1].id] # <<>>
            \/ l.args[1].t = "str" /\ l.args[1].s # <<>>
      [] OTHER -> TRUE

\* the parameter names the call l writes when it is stored
KeysOf(l) ==
    CASE l.op = "order_by" -> {"orderby", "order"}
      [] l.op = "custom" -> {l.args[1].s[1]}
      [] OTHER -> {l.op}

\* the value the call l puts under the name k: the argument itself, the very
\* list object passed, or a new one-element list around a single value
ValueOf(l, k, L) ==
    CASE l.op = "order_by" -> IF k = "orderby" THEN l.args[1] ELSE l.args[2]
      [] l.op = "custom" -> l.args[2]
      [] Wraps(l) -> [t |-> "ref", id |-> Len(L)]
      [] OTHER -> l.args[1]

\* C12: for each of author, author_exclude, categories, categories_exclude,
\* tags, tags_exclude, parent, parent_exclude: after setter(n) with an int n
\* (0 included) the name maps to a list whose contents are [n]; after
\* setter(L) with a non-empty list L it maps to L, same elements in the same
\* order; so setter(n) and setter([n]) store equal lists.
C12_IntOrList ==
    last.op \in IdSetters =>
        /\ last.out = "self"
        /\ last.args[1].t = "int" =>
              /\ last.op \in DOMAIN dicts[1]
              /\ dicts[1][last.op].t = "ref"
              /\ lists[dicts[1][last.op].id] = <<last.args[1]>>
        /\ (last.args[1].t = "ref" /\ lists[last.args[1].id] # <<>>) =>
              /\ last.op \in DOMAIN dicts[1]
              /\ dicts[1][last.op] = last.args[1]

\* author(0) after author_exclude([0]): both names map to lists equal to [0]
C12_Witness ==
    /\ last.op = "author" /\ last.prev = "author_exclude" /\ last.args[1] = PyInt(0)
    /\ {"author", "author_exclude"} \subseteq DOMAIN dicts[1]
    /\ lists[dicts[1]["author_exclude"].id] = <<PyInt(0)>>
    /\ lists[dicts[1]["author"].id] = lists[dicts[1]["author_exclude"].id]
    /\ dicts[1]["author_exclude"] = [t |-> "ref", id |-> 1]

\* C13: a list-accepting setter called with an empty list returns the
\* builder and leaves every parameter as it was, and no parameter name ever
\* maps to an empty list.
C13_EmptyListNoop ==
    [][/\ (SetterStep /\ last'.op \in ListSetters /\ last'.args[1].t = "ref"
              /\ lists'[last'.args[1].id] = <<>>) =>
              (last'.out = "self" /\ dicts'[1] = dicts[1])
       /\ \A k \in DOMAIN dicts'[1] :
              dicts'[1][k].t = "ref" => lists'[dicts'[1][k].id] # <<>>]_vars

\* tags([]).build() on a fresh builder gives the empty mapping
C13_Witness ==
    /\ last.op = "build" /\ last.prev = "tags" /\ nops = 2
    /\ lists = << <<>> >>
    /\ dicts[last.ret] = EmptyParams

\* C14: starting from a fresh (empty) builder, each stored setter call adds
\* exactly the names it writes and nothing else, the value under such a name
\* is the typed argument (the list object passed, the datetime, the bool),
\* list contents are not rewritten, and build() returns a mapping with
\* exactly the current names and values.
C14_ExactTyped ==
    [][/\ (nops = 0 => dicts[1] = EmptyParams)
       /\ (SetterStep /\ Accepts(last', lists')) =>
              /\ DOMAIN dicts'[1] = DOMAIN dicts[1] \cup KeysOf(last')
              /\ \A k \in KeysOf(last') : dicts'[1][k] = ValueOf(last', k, lists')
              /\ Wraps(last') => lists'[Len(lists')] = <<last'.args[1]>>
       /\ \A i \in 1..Len(lists) : lists'[i] = lists[i]
       /\ last'.op = "build" =>
              /\ DOMAIN dicts'[last'.ret] = DOMAIN dicts[1]
              /\ \A k \in DOMAIN dicts[1] : dicts'[last'.ret][k] = dicts[1][k]]_vars

\* status([DRAFT, PUBLISH]).after(date).build(): the enum members in order
\* and the datetime
C14_Witness ==
    /\ last.op = "build" /\ last.prev = "after" /\ nops = 3
    /\ DOMAIN dicts[last.ret] = {"status", "after"}
    /\ dicts[last.ret]["status"].t = "ref"
    /\ lists[dicts[last.ret]["status"].id] = <<DRAFT, PUBLISH>>
    /\ dicts[last.ret]["after"] = DateTime(<<"2024-01-01T12:00:00">>)

\* C15: only reset() removes entries.  A setter call, stored, ignored or
\* raising, keeps every name that was present, and so does build(); reset()
\* returns the builder and leaves no entry, so build() right after it
\* returns the empty mapping and a setter right after it leaves exactly what
\* it leaves on a fresh builder.
C15_OnlyResetRemoves ==
    [][/\ (nops' = nops + 1 /\ last'.op # "reset") =>
              DOMAIN dicts[1] \subseteq DOMAIN dicts'[1]
       /\ (nops' = nops + 1 /\ last'.op = "reset") =>
              (last'.out = "self" /\ dicts'[1] = EmptyParams)
       /\ (last.op = "reset" /\ last'.op = "build") => dicts'[last'.ret] = EmptyParams
       /\ (last.op = "reset" /\ SetterStep) =>
              /\ last'.out \in {"self", "ValueError"}
              /\ DOMAIN dicts'[1] =
                    IF last'.out = "self" /\ Accepts(last', lists')
                    THEN KeysOf(last') ELSE {}]_vars

\* page(n).build().reset().build(): the first mapping has "page", the second
\* is empty
C15_Witness ==
    /\ last.op = "build" /\ last.prev = "reset" /\ Len(rets) = 2
    /\ dicts[1] = EmptyParams
    /\ "page" \in DOMAIN dicts[rets[1]]
    /\ dicts[rets[2]] = EmptyParams

\* C16: no state closes the builder: while the scenario's bounds leave room,
\* every setter, reset() and build() can be called, after build() and after
\* reset() included.  Each name holds the value of the last stored call for
\* it since the last reset (a stored call replaces the value of its names
\* and of no other; ignored and raising calls change nothing; reset() leaves
\* no name), and build() returns exactly these contents without changing
\* them.
C16_AlwaysOpen ==
    /\ []((nops < MaxOps /\ WithinCalls) =>
             /\ ENABLED CallPage /\ ENABLED CallPerPage /\ ENABLED CallOrderBy
             /\ ENABLED CallOffset /\ ENABLED CallContext
             /\ ENABLED CallScalarSetter /\ ENABLED CallCustom /\ ENABLED CallReset
             /\ Len(lists) < MaxLists => (ENABLED CallCategories /\ ENABLED CallListSetter))
    /\ []((nops < MaxOps /\ Len(rets) < MaxBuilds) => ENABLED CallBuild)
    /\ [][/\ SetterStep =>
                \A k \in DOMAIN dicts'[1] :
                    IF k \in KeysOf(last') /\ last'.out = "self" /\ Accepts(last', lists')
                    THEN dicts'[1][k] = ValueOf(last', k, lists')
                    ELSE k \in DOMAIN dicts[1] /\ dicts'[1][k] = dicts[1][k]
          /\ (nops' = nops + 1 /\ last'.op = "reset") => DOMAIN dicts'[1] = {}
          /\ (nops' = nops + 1 /\ last'.op = "build") =>
                (dicts'[last'.ret] = dicts[1] /\ dicts'[1] = dicts[1])]_vars

\* per_page(1).build().per_page(100).build(): the second mapping has the
\* later value, the first still the earlier one
C16_Witness ==
    /\ last.op = "build" /\ last.prev = "per_page" /\ Len(rets) = 2 /\ nops = 4
    /\ dicts[rets[1]] = [per_page |-> PyInt(1)]
    /\ dicts[rets[2]] = [per_page |-> PyInt(100)]

(***************************************************************************)
(* Claims about failing calls and stored ranges (Spec, SpecFull)           *)
(***************************************************************************)
\* C25: a setter call that raises ValueError (page, per_page, or order_by
\* with an unaccepted direction) leaves self._params, the lists and the
\* mappings handed out exactly as they were, so neither "orderby" nor
\* "order" is written, and every operation can still be called after it.
C25_FailingCallFrame ==
    /\ [][(nops' = nops + 1 /\ last'.out = "ValueError") =>
             /\ last'.op \in {"page", "per_page", "order_by"}
             /\ dicts' = dicts /\ lists' = lists /\ rets' = rets]_vars
    /\ []((last.out = "ValueError" /\ nops < MaxOps) =>
             /\ ENABLED CallPage /\ ENABLED CallPerPage /\ ENABLED CallOrderBy
             /\ ENABLED CallReset
             /\ Len(rets) < MaxBuilds => ENABLED CallBuild)

\* page(1).build().order_by("date", "ASC").build(): both mappings are
\* {"page": 1}
C25_Witness ==
    /\ last.op = "build" /\ last.prev = "order_by" /\ Len(rets) = 2 /\ nops = 4
    /\ dicts[rets[1]] = [page |-> PyInt(1)]
    /\ dicts[rets[2]] = [page |-> PyInt(1)]
    /\ dicts[1] = [page |-> PyInt(1)]

\* C27: in every reachable builder state, custom() calls included, "page"
\* if present is >= 1, "per_page" if present is in 1..100, "order" if
\* present is "asc" or "desc", "context" if present is "view", "embed" or
\* "edit".
C27_RangesHold ==
    LET d == dicts[1]
    IN  /\ "page" \in DOMAIN d => (d["page"].t = "int" /\ d["page"].n >= 1)
        /\ "per_page" \in DOMAIN d =>
              (d["per_page"].t = "int" /\ d["per_page"].n >= 1 /\ d["per_page"].n <= 100)
        /\ "order" \in DOMAIN d =>
              d["order"] \in {PyStr(<<"a", "s", "c">>), PyStr(<<"d", "e", "s", "c">>)}
        /\ "context" \in DOMAIN d =>
              d["context"] \in {PyStr(<<"v", "i", "e", "w">>),
                                PyStr(<<"e", "m", "b", "e", "d">>),
                                PyStr(<<"e", "d", "i", "t">>)}

\* C28: in every reachable builder state each of include, exclude, status,
\* author, author_exclude, categories, categories_exclude, tags,
\* tags_exclude, slug, format, parent, parent_exclude that is present holds
\* a non-empty list, never a bare value.
C28_ListTyped ==
    \A k \in DOMAIN dicts[1] \cap ListSetters :
        /\ dicts[1][k].t = "ref"
        /\ lists[dicts[1][k].id] # <<>>

(***************************************************************************)
(* Scenario: the caller modifies in place a list it holds                  *)
(***************************************************************************)
\* the caller appends 9 to a list it holds: the list it passed in the last
\* call, or a list found in a mapping build() returned
CallerMutatesList == \E i \in 1..Len(lists) :
    /\ nops < MaxOps
    /\ \/ last.args # <<>> /\ last.args[1] = Ref(i)
       \/ \E h \in 1..Len(rets) : \E k \in DOMAIN dicts[rets[h]] : dicts[rets[h]][k] = Ref(i)
    /\ lists' = [lists EXCEPT ![i] = Append(@, PyInt(9))]
    /\ last' = [op |-> "caller_append", prev |-> last.op, args |-> <<Ref(i)>>,
                out |-> "none", ret |-> 0]
    /\ nops' = nops + 1
    /\ UNCHANGED <<dicts, rets, errVars, auxVars>>

AliasNext == FullNext \/ CallerMutatesList

SpecAlias == Init /\ [][AliasNext]_vars

\* the contents of the mapping D[h], every list reference followed into L
Contents(D, L, h) ==
    [k \in DOMAIN D[h] |-> IF D[h][k].t = "ref" THEN L[D[h][k].id] ELSE D[h][k]]

\* C26: when the caller modifies in place a list it passed to a setter or
\* found in a mapping returned by build(), the contents of the builder's
\* parameters stay as they were, and so do the contents of every returned
\* mapping that does not hold that list.
C26_NoAliasing ==
    [][(nops' = nops + 1 /\ last'.op = "caller_append") =>
          /\ Contents(dicts', lists', 1) = Contents(dicts, lists, 1)
          /\ \A h \in 1..Len(rets) :
                (\A k \in DOMAIN dicts[rets[h]] : dicts[rets[h]][k] # last'.args[1]) =>
                    Contents(dicts', lists', rets[h]) = Contents(dicts, lists, rets[h])]_vars

(***************************************************************************)
(* plugin/base.py: PluginManager, with plugins that start as               *)
(* FastAPIPlugin does                                                      *)
(***************************************************************************)
\* plugin.start(): RuntimeError before initialize(), else the plugin enables
\* itself and its server runs
PluginStart(o) ==
    IF ~o.server THEN [raised |-> TRUE, o |-> o]
    ELSE [raised |-> FALSE, o |-> [o EXCEPT !.enabled = TRUE, !.running = TRUE]]

\* plugin.stop(): stops the server when there is one
PluginStop(o) == IF o.server THEN [o EXCEPT !.running = FALSE] ELSE o

\* plugin.initialize(config), called by the application on a plugin object
initialize(p) ==
    /\ ~objs[p].server
    /\ objs' = [objs EXCEPT ![p].server = TRUE]
    /\ mcall' = [op |-> "initialize", name |-> objs[p].name, obj |-> p, ret |-> "None"]
    /\ UNCHANGED plugins
    /\ UNCHANGED <<errVars, bldVars, requests, now, flight, forwarded, verdict>>

register(p) ==
    /\ plugins' = SetItem(plugins, objs[p].name, p)
    /\ mcall' = [op |-> "register", name |-> objs[p].name, obj |-> p, ret |-> "None"]
    /\ UNCHANGED objs
    /\ UNCHANGED <<errVars, bldVars, requests, now, flight, forwarded, verdict>>

unregister(name) ==
    /\ IF name \in DOMAIN plugins
       THEN LET p == plugins[name]
            IN  /\ objs' = IF objs[p].enabled
                           THEN [objs EXCEPT ![p] = [PluginStop(@) EXCEPT !.enabled = FALSE]]
                           ELSE objs
                /\ plugins' = DelItem(plugins, name)
                /\ mcall' = [op |-> "unregister", name |-> name, obj |-> p, ret |-> "None"]
       ELSE /\ mcall' = [op |-> "unregister", name |-> name, obj |-> 0, ret |-> "None"]
            /\ UNCHANGED <<plugins, objs>>
    /\ UNCHANGED <<errVars, bldVars, requests, now, flight, forwarded, verdict>>

\* enable(), then start(); an exception of start() is caught and logged
enable_plugin(name) ==
    /\ IF name \in DOMAIN plugins
       THEN LET p == plugins[name]
                r == PluginStart([objs[p] EXCEPT !.enabled = TRUE])
            IN  /\ objs' = [objs EXCEPT ![p] = r.o]
                /\ mcall' = [op |-> "enable_plugin", name |-> name, obj |-> p,
                             ret |-> IF r.raised THEN "False" ELSE "True"]
       ELSE /\ mcall' = [op |-> "enable_plugin", name |-> name, obj |-> 0, ret |-> "False"]
            /\ UNCHANGED objs
    /\ UNCHANGED plugins
    /\ UNCHANGED <<errVars, bldVars, requests, now, flight, forwarded, verdict>>

\* stop(), then disable()
disable_plugin(name) ==
    /\ IF name \in DOMAIN plugins
       THEN LET p == plugins[name]
            IN  /\ objs' = [objs EXCEPT ![p] = [PluginStop(@) EXCEPT !.enabled = FALSE]]
                /\ mcall' = [op |-> "disable_plugin", name |-> name, obj |-> p, ret |-> "True"]
       ELSE /\ mcall' = [op |-> "disable_plugin", name |-> name, obj |-> 0, ret |-> "False"]
            /\ UNCHANGED objs
    /\ UNCHANGED plugins
    /\ UNCHANGED <<errVars, bldVars, requests, now, flight, forwarded, verdict>>

PlugNext ==
    \/ \E p \in DOMAIN objs : initialize(p)
    \/ \E p \in DOMAIN objs : register(p)
    \/ \E name \in {"fastapi", "cache", "ghost"} : unregister(name)
    \/ \E name \in {"fastapi", "cache", "ghost"} : enable_plugin(name)
    \/ \E name \in {"fastapi", "cache", "ghost"} : disable_plugin(name)

SpecPlug == Init /\ [][PlugNext]_vars

\* C29: enable_plugin(name) returns True only with the plugin enabled and
\* started; whenever it returns False the plugin, if there is one, is not
\* left with enabled = True; whenever disable_plugin(name) returns True the
\* plugin has enabled = False.
C29_EnableReportsState ==
    /\ (mcall.op = "enable_plugin" /\ mcall.ret = "True") =>
          (objs[mcall.obj].enabled /\ objs[mcall.obj].running)
    /\ (mcall.op = "enable_plugin" /\ mcall.ret = "False" /\ mcall.obj # 0) =>
          ~objs[mcall.obj].enabled
    /\ (mcall.op = "disable_plugin" /\ mcall.ret = "True") => ~objs[mcall.obj].enabled

\* C30: every plugin object that is enabled is the one registered under its
\* name.
C30_EnabledRegistered ==
    \A p \in DOMAIN objs :
        objs[p].enabled => (objs[p].name \in DOMAIN plugins /\ plugins[objs[p].name] = p)

(***************************************************************************)
(* plugin/fastapi/middleware.py: RateLimitMiddleware                       *)
(***************************************************************************)
max_requests == 2

window_seconds == 2

MaxTime == 4

MaxArrivals == 5

\* dispatch() accepting one request more than max_requests
dispatch_OffByOne(reqs, client_ip, current_time) ==
    LET kept == IF client_ip \in DOMAIN reqs
                THEN SelectSeq(reqs[client_ip], LAMBDA t : current_time - t < window_seconds)
                ELSE <<>>
    IN  IF Len(kept) > max_requests
        THEN [out |-> "HTTPException", requests |-> SetItem(reqs, client_ip, kept)]
        ELSE [out |-> "call_next",
              requests |-> SetItem(reqs, client_ip, Append(kept, current_time))]

\* dispatch() up to `await call_next(request)`: no await comes before it, so
\* the event loop runs this part of one request without interruption
dispatch(reqs, client_ip, current_time) ==
    LET kept == IF client_ip \in DOMAIN reqs
                THEN SelectSeq(reqs[client_ip], LAMBDA t : current_time - t < window_seconds)
                ELSE <<>>
    IN  IF Len(kept) >= max_requests
        THEN [out |-> "HTTPException", requests |-> SetItem(reqs, client_ip, kept)]
        ELSE [out |-> "call_next",
              requests |-> SetItem(reqs, client_ip, Append(kept, current_time))]

\* a request of a client arrives; one without client information counts as
\* "unknown"
CallDispatch == \E ip \in {"10.0.0.1", "unknown"} :
    /\ verdict.n < MaxArrivals
    /\ LET r == dispatch(requests, ip, now)
       IN  /\ requests' = r.requests
           /\ verdict' = [out |-> r.out, ip |-> ip, t |-> now, n |-> verdict.n + 1]
           /\ IF r.out = "call_next"
              THEN /\ flight' = Append(flight, [ip |-> ip, t |-> now])
                   /\ forwarded' = SetItem(forwarded, ip,
                          Append(IF ip \in DOMAIN forwarded THEN forwarded[ip] ELSE <<>>, now))
              ELSE UNCHANGED <<flight, forwarded>>
    /\ UNCHANGED <<now, plugins, objs, mcall, errVars, bldVars>>

\* call_next returns for a waiting request, in any order; the response gets
\* its X-RateLimit headers and leaves
HandlerReturns == \E i \in 1..Len(flight) :
    /\ flight' = SubSeq(flight, 1, i - 1) \o SubSeq(flight, i + 1, Len(flight))
    /\ verdict' = [verdict EXCEPT !.out = "response", !.ip = flight[i].ip, !.t = flight[i].t]
    /\ UNCHANGED <<requests, forwarded, now, plugins, objs, mcall, errVars, bldVars>>

\* a second passes
Tick ==
    /\ now < MaxTime
    /\ now' = now + 1
    /\ UNCHANGED <<requests, flight, forwarded, verdict, plugins, objs, mcall, errVars,
                   bldVars>>

RateNext == CallDispatch \/ HandlerReturns \/ Tick

SpecRate == Init /\ [][RateNext]_vars

\* the recorded requests of ip that are younger than window_seconds at time c
Young(ip, c) ==
    IF ip \in DOMAIN requests
    THEN Cardinality({j \in 1..Len(requests[ip]) : c - requests[ip][j] < window_seconds})
    ELSE 0

\* C24: for each client ip, of any max_requests + 1 requests passed to the
\* next handler the last comes at least window_seconds after the first, so
\* no window holds more than max_requests of them, whatever the order in
\* which waiting requests complete; a request is rejected with
\* HTTPException(429) exactly when the client has max_requests recorded
\* requests younger than window_seconds; a rejected request is neither
\* recorded nor passed on.
C24_RateLimit ==
    /\ [](\A ip \in DOMAIN forwarded :
             \A i \in 1..Len(forwarded[ip]) :
                 i + max_requests <= Len(forwarded[ip]) =>
                     forwarded[ip][i + max_requests] - forwarded[ip][i] >= window_seconds)
    /\ [][verdict'.n = verdict.n + 1 =>
             LET ip == verdict'.ip
             IN  /\ (verdict'.out = "HTTPException") <=> (Young(ip, now) >= max_requests)
                 /\ verdict'.out \in {"HTTPException", "call_next"}
                 /\ verdict'.out = "HTTPException" =>
                       /\ Len(requests'[ip]) = Young(ip, now)
                       /\ forwarded' = forwarded /\ flight' = flight
                 /\ verdict'.out = "call_next" =>
                       /\ Len(requests'[ip]) = Young(ip, now) + 1
                       /\ requests'[ip][Len(requests'[ip])] = now
                 /\ \A other \in DOMAIN requests \ {ip} : requests'[other] = requests[other]]_vars

\* a client is rejected while two of its requests and one of another client
\* are still waiting in call_next, and it was admitted again after an
\* earlier window passed
C24_Witness ==
    /\ verdict.out = "HTTPException" /\ verdict.ip = "10.0.0.1"
    /\ Len(flight) = 3
    /\ "unknown" \in DOMAIN forwarded
    /\ Len(forwarded["10.0.0.1"]) = 3

(***************************************************************************)
(* wordpress.py, core/client.py and service/*.py: constructing the facade, *)
(* listing posts and deleting resources                                    *)
(***************************************************************************)
\* url.rstrip('/')
RECURSIVE RStripSlash(_)
RStripSlash(url) ==
    IF url # <<>> /\ url[Len(url)] = "/" THEN RStripSlash(SubSeq(url, 1, Len(url) - 1))
    ELSE url

\* WordPressClient._normalize_url
normalize_url(url) ==
    LET http == <<"h", "t", "t", "p", ":", "/", "/">>
        https == <<"h", "t", "t", "p", "s", ":", "/", "/">>
        startswith(p) == Len(url) >= Len(p) /\ SubSeq(url, 1, Len(p)) = p
        u == IF ~(startswith(http) \/ startswith(https)) THEN https \o url ELSE url
    IN  RStripSlash(u)

\* _validate_url returning the URL with its trailing slashes
validate_url_NoStrip(url) ==
    LET http == <<"h", "t", "t", "p", ":", "/", "/">>
        https == <<"h", "t", "t", "p", "s", ":", "/", "/">>
        startswith(p) == Len(url) >= Len(p) /\ SubSeq(url, 1, Len(p)) = p
        u == IF ~(startswith(http) \/ startswith(https)) THEN https \o url ELSE url
    IN  IF url = <<>> THEN Raised(Builtin("ValidationError")) ELSE Returned(PyStr(u))

\* WordPress._validate_url (AsyncWordPress._validate_url has the same body).
\* urlparse(u).netloc of a u that starts with http:// or https:// is what
\* follows the "//" up to the next "/", "?" or "#"; the ValidationError
\* raised inside the try is caught by `except Exception` and raised again
\* as a ValidationError.
validate_url(url) ==
    LET http == <<"h", "t", "t", "p", ":", "/", "/">>
        https == <<"h", "t", "t", "p", "s", ":", "/", "/">>
        startswith(p) == Len(url) >= Len(p) /\ SubSeq(url, 1, Len(p)) = p
        u == IF ~(startswith(http) \/ startswith(https)) THEN https \o url ELSE url
        from == IF SubSeq(u, 1, Len(http)) = http THEN Len(http) + 1 ELSE Len(https) + 1
        netloc_empty == from > Len(u) \/ u[from] \in {"/", "?", "#"}
    IN  IF url = <<>> THEN Raised(Builtin("ValidationError"))
        ELSE IF netloc_empty THEN Raised(Builtin("ValidationError"))
        ELSE Returned(PyStr(RStripSlash(u)))

\* PostService.list(**kw): kw holds the arguments the caller gives
PostService_list(kw) ==
    LET arg(n, default) == IF n \in DOMAIN kw THEN kw[n] ELSE default
        base == [page |-> arg("page", PyInt(1)),
                 per_page |-> arg("per_page", PyInt(10)),
                 context |-> arg("context", PyStr(<<"v", "i", "e", "w">>)),
                 order |-> arg("order", PyStr(<<"d", "e", "s", "c">>)),
                 orderby |-> arg("orderby", PyStr(<<"d", "a", "t", "e">>))]
        opt(n) ==
            LET v == arg(n, None)
            IN  CASE n = "search" -> IF TruthyIn(<<>>, v) THEN v ELSE Absent
                  [] n \in {"author", "author_exclude", "exclude", "include", "categories",
                            "categories_exclude", "tags", "tags_exclude"} ->
                        IF TruthyIn(<<>>, v) THEN JoinComma(MapStr(v.q)) ELSE Absent
                  [] n \in {"after", "before"} ->
                        IF TruthyIn(<<>>, v) THEN PyStr(v.iso) ELSE Absent
                  [] n \in {"offset", "sticky"} -> IF v # None THEN v ELSE Absent
                  [] n = "slug" -> IF TruthyIn(<<>>, v) THEN JoinComma(v.q) ELSE Absent
                  [] n \in {"status", "format"} ->
                        IF TruthyIn(<<>>, v) THEN build_comma_separated_param(v.q) ELSE Absent
                  [] OTHER -> v
        named == {"search", "author", "author_exclude", "after", "before", "exclude", "include",
                  "offset", "slug", "status", "categories", "categories_exclude", "tags",
                  "tags_exclude", "sticky", "format"}
        extra == DOMAIN kw \ (named \cup DOMAIN base)
    IN  [n \in DOMAIN base \cup {x \in named : opt(x) # Absent} \cup extra |->
            IF n \in DOMAIN base THEN base[n] ELSE opt(n)]

\* WordPressClient.delete(endpoint): it has no params argument, and request()
\* gets none
WordPressClient_delete(endpoint) ==
    [kind |-> "request", method |-> "DELETE", endpoint |-> endpoint, params |-> None]

\* PostService.delete: params is built and not used
PostService_delete(post_id, force) ==
    LET params == IF force THEN [force |-> PyBool(TRUE)] ELSE << >>
    IN  WordPressClient_delete(<<"p", "o", "s", "t", "s", "/">> \o IntToStr(post_id))

AsyncPostService_delete(post_id, force) ==
    LET params == IF force THEN [force |-> PyBool(TRUE)] ELSE << >>
    IN  WordPressClient_delete(<<"p", "o", "s", "t", "s", "/">> \o IntToStr(post_id))

UserService_delete(user_id, force, reassign) ==
    LET p1 == IF force THEN [force |-> PyBool(TRUE)] ELSE << >>
        params == IF reassign # None THEN SetItem(p1, "reassign", reassign) ELSE p1
    IN  WordPressClient_delete(<<"u", "s", "e", "r", "s", "/">> \o IntToStr(user_id))

(***************************************************************************)
(* The service scenario: one call of a facade constructor, of a post list  *)
(* or of a delete, on arguments drawn from small sets                      *)
(***************************************************************************)
SvcInit ==
    /\ input \in
        LET http == <<"h", "t", "t", "p", ":", "/", "/">>
            https == <<"h", "t", "t", "p", "s", ":", "/", "/">>
            ftp == <<"f", "t", "p", ":", "/", "/">>
            urls == {p \o h \o t : p \in {<<>>, http, https, ftp},
                                   h \in {<<>>, <<"a">>, <<"a", "/", "b">>, <<"?", "q">>},
                                   t \in {<<>>, <<"/">>, <<"/", "/">>}}
            vals == [page |-> {PyInt(2)},
                     search |-> {PyStr(<<>>), PyStr(<<"k", "w">>)},
                     status |-> {PyList(<<>>), PyList(<<DRAFT, PyStr(<<"d", "r", "a", "f", "t">>)>>)},
                     after |-> {DateTime(<<"2024-01-01T12:00:00">>)}]
            kwargs == UNION {{f \in [K -> UNION {vals[n] : n \in DOMAIN vals}] :
                                \A n \in K : f[n] \in vals[n]} : K \in SUBSET DOMAIN vals}
        IN  [op : {"WordPress", "AsyncWordPress"}, url : urls]
            \cup [op : {"PostService.list", "AsyncPostService.list"}, kwargs : kwargs]
            \cup [op : {"PostService.delete", "AsyncPostService.delete"},
                  id : {1, 12}, force : BOOLEAN, reassign : {None}]
            \cup [op : {"UserService.delete"},
                  id : {1, 12}, force : BOOLEAN, reassign : {None, PyInt(2)}]
    /\ pc = "start"
    /\ result = NoOutcome
    /\ classified = 0
    /\ text = NoOutcome
    /\ BldInit
    /\ AuxInit

\* WordPress.__init__ / AsyncWordPress.__init__: the URL is validated before
\* the transport client is built from the validated URL
CallWordPress ==
    /\ pc = "start"
    /\ input.op \in {"WordPress", "AsyncWordPress"}
    /\ LET v == validate_url(input.url)
       IN  result' = IF v.kind = "raise" THEN v
                     ELSE [kind |-> "object", base_url |-> v.value,
                           client |-> [base_url |-> PyStr(normalize_url(v.value.s))]]
    /\ pc' = "done"
    /\ UNCHANGED <<input, classified, text, bldVars, auxVars>>

\* PostService.list / AsyncPostService.list up to client.get(endpoint, params)
CallList ==
    /\ pc = "start"
    /\ input.op \in {"PostService.list", "AsyncPostService.list"}
    /\ result' = [kind |-> "request", method |-> "GET",
                  endpoint |-> <<"p", "o", "s", "t", "s">>,
                  params |-> PyDict(IF input.op = "PostService.list"
                                    THEN PostService_list(input.kwargs)
                                    ELSE build_list_params(input.kwargs))]
    /\ pc' = "done"
    /\ UNCHANGED <<input, classified, text, bldVars, auxVars>>

\* the delete of a service up to the request handed to the transport
CallDelete ==
    /\ pc = "start"
    /\ input.op \in {"PostService.delete", "AsyncPostService.delete", "UserService.delete"}
    /\ result' = CASE input.op = "PostService.delete" ->
                        PostService_delete(input.id, input.force)
                   [] input.op = "AsyncPostService.delete" ->
                        AsyncPostService_delete(input.id, input.force)
                   [] input.op = "UserService.delete" ->
                        UserService_delete(input.id, input.force, input.reassign)
    /\ pc' = "done"
    /\ UNCHANGED <<input, classified, text, bldVars, auxVars>>

SvcNext ==
    \/ CallWordPress
    \/ CallList
    \/ CallDelete

SpecSvc == SvcInit /\ [][SvcNext]_vars

(***************************************************************************)
(* Claims about the facade and the services                                *)
(***************************************************************************)
\* C21: constructing WordPress or AsyncWordPress on an empty URL raises
\* ValidationError and builds no client; otherwise the constructor either
\* raises ValidationError without a client or yields a base_url that is the
\* given URL, with "https://" put in front when it starts with neither
\* "http://" nor "https://" and unchanged in front when it does, cut before
\* its trailing slashes; validating or normalizing that base_url again gives
\* it back, and the transport client holds the same base_url.
C21_UrlNormalized ==
    (pc = "done" /\ input.op \in {"WordPress", "AsyncWordPress"}) =>
        LET url == input.url
            http == <<"h", "t", "t", "p", ":", "/", "/">>
            https == <<"h", "t", "t", "p", "s", ":", "/", "/">>
            pre(p) == Len(url) >= Len(p) /\ SubSeq(url, 1, Len(p)) = p
            full == IF pre(http) \/ pre(https) THEN url ELSE https \o url
        IN  /\ url = <<>> => result.kind = "raise"
            /\ result.kind \in {"raise", "object"}
            /\ result.kind = "raise" =>
                  /\ result.exc.cls = "ValidationError"
                  /\ "client" \notin DOMAIN result
            /\ result.kind = "object" =>
                  LET b == result.base_url.s
                  IN  /\ \E k \in 0..Len(full) :
                            /\ b = SubSeq(full, 1, Len(full) - k)
                            /\ \A i \in (Len(full) - k + 1)..Len(full) : full[i] = "/"
                      /\ b # <<>> /\ b[Len(b)] # "/"
                      /\ validate_url(b) = Returned(PyStr(b))
                      /\ normalize_url(b) = b
                      /\ result.client.base_url = result.base_url

\* AsyncWordPress("a/b//") has base_url "https://a/b", and so has its client
C21_Witness ==
    /\ pc = "done"
    /\ input.op = "AsyncWordPress"
    /\ input.url = <<"a", "/", "b", "/", "/">>
    /\ result.kind = "object"
    /\ result.base_url = PyStr(<<"h", "t", "t", "p", "s", ":", "/", "/", "a", "/", "b">>)
    /\ result.client.base_url = result.base_url

\* C22: the DELETE request of a service delete carries force = True exactly
\* when force is given as True, and the reassign id when one is given to the
\* users service.
C22_DeleteCarriesForce ==
    (pc = "done"
     /\ input.op \in {"PostService.delete", "AsyncPostService.delete", "UserService.delete"}) =>
        LET sent == IF result.params = None THEN << >> ELSE result.params.m
        IN  /\ result.method = "DELETE"
            /\ input.force => ("force" \in DOMAIN sent /\ sent["force"] = PyBool(TRUE))
            /\ ~input.force => "force" \notin DOMAIN sent
            /\ input.reassign # None =>
                  ("reassign" \in DOMAIN sent /\ sent["reassign"] = input.reassign)

\* C23: on the same arguments the request of PostService.list and the
\* request of AsyncPostService.list carry the same query parameters.
C23_SameParams ==
    (pc = "done" /\ input.op \in {"PostService.list", "AsyncPostService.list"}) =>
        result.params = PyDict(IF input.op = "PostService.list"
                               THEN build_list_params(input.kwargs)
                               ELSE PostService_list(input.kwargs))

====
